---- MODULE Spec2Model ----
(***************************************************************************)
(* gopherbadgeimg (cmd/gopherbadgeimg/main.go): converts an image into a   *)
(* 1-bit-per-pixel bitmap for the badge display.                           *)
(*                                                                         *)
(* Strings are sequences of one-character strings, byte slices are         *)
(* functions over 0..n-1 (Go indexing), images are dst[i][j] = the sum of  *)
(* the R, G and B channels that dst.At(i, j).RGBA() returns.               *)
(*                                                                         *)
(* Spec    one run of main, from flag.Parse to process exit.               *)
(* SpecFn  the pure functions (ParseRatio, the packing loop, PrintImg's    *)
(*         bit extraction, WriteToGoFile's formatting) applied to inputs   *)
(*         drawn from bounded sets.                                        *)
(***************************************************************************)
EXTENDS Integers, Sequences, FiniteSets, TLC

(***************************************************************************)
(* Bounds                                                                  *)
(***************************************************************************)
\* main: custom ratio tokens "<w>x<h>" with w, h in -MaxDim..MaxDim
MaxDim == 8
\* SpecFn: grids of width 0..MaxW
MaxW == 2
\* SpecFn: grids of height 8*k, k in 1..MaxHBytes
MaxHBytes == 2
\* SpecFn: grids with at most MaxMarks marked pixels (marked black on a
\* non-black ground, or marked non-black on a black ground)
MaxMarks == 1
\* SpecFn: free-form tokens of length 0..MaxTokLen over TokAlphabet
MaxTokLen == 3
\* SpecFn: bitmaps of length 0..MaxBytes handed to WriteToGoFile
MaxBytes == 66

(***************************************************************************)
(* Go integer arithmetic: / and % truncate toward zero.                    *)
(***************************************************************************)
Abs(n) == IF n < 0 THEN 0 - n ELSE n

GoDiv(a, b) ==
  IF (a >= 0) = (b > 0) THEN Abs(a) \div Abs(b) ELSE 0 - (Abs(a) \div Abs(b))

GoMod(a, b) == a - (b * GoDiv(a, b))

\* bit n of the byte v
Bit(v, n) == (v \div (2^n)) % 2

\* v | w on bytes
BitOr(v, w) ==
  LET m(n) == IF Bit(v, n) = 1 \/ Bit(w, n) = 1 THEN 2^n ELSE 0
  IN  m(0) + m(1) + m(2) + m(3) + m(4) + m(5) + m(6) + m(7)

\* v & w on bytes
BitAnd(v, w) ==
  LET m(n) == IF Bit(v, n) = 1 /\ Bit(w, n) = 1 THEN 2^n ELSE 0
  IN  m(0) + m(1) + m(2) + m(3) + m(4) + m(5) + m(6) + m(7)

\* byte(1 << uint(s)): shifts of 8 or more leave nothing in a byte
Shl1(s) == IF s >= 0 /\ s <= 7 THEN 2^s ELSE 0

\* len(b) of a byte slice
LenB(b) == Cardinality(DOMAIN b)

(***************************************************************************)
(* strings, strconv                                                        *)
(***************************************************************************)
Digits == <<"0", "1", "2", "3", "4", "5", "6", "7", "8", "9">>

UpperCase == <<"A", "B", "C", "D", "E", "F", "G", "H", "I", "J", "K", "L", "M",
               "N", "O", "P", "Q", "R", "S", "T", "U", "V", "W", "X", "Y", "Z">>

LowerCase == <<"a", "b", "c", "d", "e", "f", "g", "h", "i", "j", "k", "l", "m",
               "n", "o", "p", "q", "r", "s", "t", "u", "v", "w", "x", "y", "z">>

\* strings.ToLower
ToLower(s) ==
  [k \in 1..Len(s) |->
     IF \E u \in 1..26 : UpperCase[u] = s[k]
     THEN LowerCase[CHOOSE u \in 1..26 : UpperCase[u] = s[k]]
     ELSE s[k]]

\* strings.Split(s, sep) for a one-character sep: the fields between the
\* separators, empty fields included; n separators give n+1 fields
RECURSIVE SplitFrom(_, _, _, _)
SplitFrom(s, sep, k, cur) ==
  IF k > Len(s) THEN <<cur>>
  ELSE IF s[k] = sep THEN <<cur>> \o SplitFrom(s, sep, k + 1, <<>>)
  ELSE SplitFrom(s, sep, k + 1, Append(cur, s[k]))

Split(s, sep) == SplitFrom(s, sep, 1, <<>>)

DigitVal(c) == (CHOOSE d \in 1..10 : Digits[d] = c) - 1

IsDigit(c) == \E d \in 1..10 : Digits[d] = c

RECURSIVE DecVal(_, _)
DecVal(s, acc) ==
  IF s = <<>> THEN acc ELSE DecVal(Tail(s), (acc * 10) + DigitVal(Head(s)))

\* strconv.Atoi: an optional sign, then one or more decimal digits.
\* (The fields modelled here are short, far below the range error.)
Atoi(s) ==
  LET signed == s # <<>> /\ Head(s) \in {"+", "-"}
      body   == IF signed THEN Tail(s) ELSE s
  IN  IF body = <<>> \/ \E k \in 1..Len(body) : ~IsDigit(body[k])
      THEN [val |-> 0, err |-> TRUE]
      ELSE [val |-> IF signed /\ Head(s) = "-" THEN 0 - DecVal(body, 0)
                    ELSE DecVal(body, 0),
            err |-> FALSE]

\* the decimal numeral of an integer, as the "<W>x<H>" format spells it
RECURSIVE NatStr(_)
NatStr(n) ==
  IF n < 10 THEN <<Digits[n + 1]>> ELSE Append(NatStr(n \div 10), Digits[(n % 10) + 1])

Itoa(n) == IF n < 0 THEN <<"-">> \o NatStr(0 - n) ELSE NatStr(n)

(***************************************************************************)
(* ParseRatio                                                              *)
(***************************************************************************)
ErrNone == "nil"
ErrSplit == "invalid ratio string provided"
ErrX == "error: could not parse x coordinate count"
ErrY == "error: could not parse y coordinate count"

ParseRatio(rstr) ==
  LET pixels == Split(ToLower(rstr), "x")
  IN  IF Len(pixels) # 2
      THEN [x |-> 0, y |-> 0, err |-> ErrSplit]
      ELSE LET px == Atoi(pixels[1])
               \* the height is read from the first field as well
               py == Atoi(pixels[1])
           IN  IF px.err THEN [x |-> 0, y |-> 0, err |-> ErrX]
               ELSE IF py.err THEN [x |-> 0, y |-> 0, err |-> ErrY]
               ELSE [x |-> px.val, y |-> py.val, err |-> ErrNone]

(***************************************************************************)
(* ImgToBytes: allocation and packing loop                                 *)
(*                                                                         *)
(* A loop is a recursive operator over its index range lo..hi-1.  The      *)
(* iterations are applied in increasing index order; the range is halved   *)
(* only to keep the depth of evaluation logarithmic.  A loop state with    *)
(* panic = TRUE is a run-time panic: the remaining iterations do not run.  *)
(***************************************************************************)
\* one byte per pixel
MakeLenPerPixel(w, h) == w * h

\* imageBits := make([]byte, x*y/8); a negative length panics
MakeLen(w, h) == GoDiv(w * h, 8)

MakeBits(w, h) ==
  IF MakeLen(w, h) < 0
  THEN [bits |-> [k \in {} |-> 0], panic |-> TRUE]
  ELSE [bits |-> [k \in 0..(MakeLen(w, h) - 1) |-> 0], panic |-> FALSE]

\* the flat index of pixel (i, j), the byte it lives in and its mask
PixIdx(i, j, h) == (i * h) + j

PackByte(i, j, h) == GoDiv(PixIdx(i, j, h), 8)

\* least significant bit first
PackMaskLsb(i, j, h) == Shl1(GoMod(PixIdx(i, j, h), 8))

PackMask(i, j, h) == Shl1(7 - GoMod(PixIdx(i, j, h), 8))

\* r, g, b, _ := dst.At(i, j).RGBA(), as r+g+b; a point outside the image
\* reads as the zero colour
At(dst, i, j) ==
  IF i \in DOMAIN dst /\ j \in DOMAIN dst[i] THEN dst[i][j] ELSE 0

\* r+g+b == 0
IsBlack(sum) == sum = 0

\* the body of the inner loop for pixel (i, j)
PackPixel(st, dst, i, j, h) ==
  IF ~IsBlack(At(dst, i, j)) THEN st
  ELSE IF PackByte(i, j, h) \notin DOMAIN st.bits
       THEN [st EXCEPT !.panic = TRUE]
       ELSE [st EXCEPT !.bits[PackByte(i, j, h)] = BitOr(@, PackMask(i, j, h))]

\* for j := lo; j < hi; j++
RECURSIVE PackRows(_, _, _, _, _, _)
PackRows(st, dst, i, lo, hi, h) ==
  IF hi <= lo \/ st.panic THEN st
  ELSE IF hi = lo + 1 THEN PackPixel(st, dst, i, lo, h)
  ELSE LET mid == (lo + hi) \div 2
           fst == PackRows(st, dst, i, lo, mid, h)
       IN  IF fst.panic THEN fst ELSE PackRows(fst, dst, i, mid, hi, h)

\* for i := lo; i < hi; i++ { for j := 0; j < y; j++ }
RECURSIVE PackCols(_, _, _, _, _)
PackCols(st, dst, lo, hi, h) ==
  IF hi <= lo \/ st.panic THEN st
  ELSE IF hi = lo + 1 THEN PackRows(st, dst, lo, 0, h, h)
  ELSE LET mid == (lo + hi) \div 2
           fst == PackCols(st, dst, lo, mid, h)
       IN  IF fst.panic THEN fst ELSE PackCols(fst, dst, mid, hi, h)

\* i <= x
PackLoopInclusive(w, h, dst) == PackCols(MakeBits(w, h), dst, 0, w + 1, h)

\* allocation, then the packing loop over the 2-colour grid dst
PackLoop(w, h, dst) == PackCols(MakeBits(w, h), dst, 0, w, h)

(***************************************************************************)
(* PrintImg                                                                *)
(***************************************************************************)
\* row-major addressing
PrintOffsetRowMajor(i, j, h) == (i * h) + j

PrintOffset(i, j, h) == (j * h) + i

\* bits[offset/8] & (1 << uint(7-offset%8)) for display row i, column j
PrintBit(bits, i, j, h) ==
  BitAnd(bits[GoDiv(PrintOffset(i, j, h), 8)],
         Shl1(7 - GoMod(PrintOffset(i, j, h), 8)))

Glyph(bit) == IF bit # 0 THEN "*" ELSE " "

\* the positions, in printing order, whose byte lies outside bits
PrintBad(w, h, bits) ==
  {p \in (0..(h - 1)) \X (0..(w - 1)) :
     GoDiv(PrintOffset(p[1], p[2], h), 8) \notin DOMAIN bits}

\* rows outer, columns inner; a row is the sequence of its glyphs.  On an
\* out-of-range read the rows (and the part of a row) printed so far remain.
PrintImg(w, h, bits) ==
  LET bad == PrintBad(w, h, bits)
  IN  IF bad = {}
      THEN [lines |-> [i \in 1..h |->
                         [j \in 1..w |-> Glyph(PrintBit(bits, i - 1, j - 1, h))]],
            panic |-> FALSE]
      ELSE LET b == CHOOSE p \in bad :
                      \A q \in bad : p[1] < q[1] \/ (p[1] = q[1] /\ p[2] <= q[2])
           IN  [lines |-> [i \in 1..(b[1] + 1) |->
                             [j \in 1..(IF i = b[1] + 1 THEN b[2] ELSE w) |->
                                Glyph(PrintBit(bits, i - 1, j - 1, h))]],
                panic |-> TRUE]

(***************************************************************************)
(* EncodeToString: base64.StdEncoding, padded                              *)
(***************************************************************************)
B64 == <<"A", "B", "C", "D", "E", "F", "G", "H", "I", "J", "K", "L", "M",
         "N", "O", "P", "Q", "R", "S", "T", "U", "V", "W", "X", "Y", "Z",
         "a", "b", "c", "d", "e", "f", "g", "h", "i", "j", "k", "l", "m",
         "n", "o", "p", "q", "r", "s", "t", "u", "v", "w", "x", "y", "z",
         "0", "1", "2", "3", "4", "5", "6", "7", "8", "9", "+", "/">>

EncodeToString(imageBits) ==
  LET n == LenB(imageBits)
      at(k) == IF k < n THEN imageBits[k] ELSE 0
      ch(g, c) ==
        CASE c = 0 -> B64[(at(3 * g) \div 4) + 1]
          [] c = 1 -> B64[(((at(3 * g) % 4) * 16) + (at((3 * g) + 1) \div 16)) + 1]
          [] c = 2 -> IF (3 * g) + 1 < n
                      THEN B64[(((at((3 * g) + 1) % 16) * 4) + (at((3 * g) + 2) \div 64)) + 1]
                      ELSE "="
          [] c = 3 -> IF (3 * g) + 2 < n THEN B64[(at((3 * g) + 2) % 64) + 1] ELSE "="
  IN  [k \in 1..(4 * ((n + 2) \div 3)) |-> ch((k - 1) \div 4, (k - 1) % 4)]

(***************************************************************************)
(* Output files.  io is what the file system does to the call: the create  *)
(* fails, or the Write after io successful ones fails, or nothing fails.   *)
(***************************************************************************)
IONoFail == 0 - 2
IOCreateFails == 0 - 1

\* outf.Write(chunk); once a Write has failed the function has returned
FWrite(f, chunk, io) ==
  IF f.err THEN f
  ELSE IF io >= 0 /\ f.n >= io THEN [f EXCEPT !.err = TRUE]
  ELSE [content |-> f.content \o chunk, n |-> f.n + 1, err |-> FALSE]

\* os.Create
FCreate == [content |-> <<>>, n |-> 0, err |-> FALSE]

NoFile == [created |-> FALSE, content |-> <<>>, err |-> TRUE]

WriteToBinFile(imageBits, io) ==
  IF io = IOCreateFails THEN NoFile
  ELSE LET f == FWrite(FCreate, [k \in 1..LenB(imageBits) |-> imageBits[k - 1]], io)
       IN  [created |-> TRUE, content |-> f.content, err |-> f.err]

HexDigits == <<"0", "1", "2", "3", "4", "5", "6", "7",
               "8", "9", "A", "B", "C", "D", "E", "F">>

\* fmt.Sprintf("0x%02X, ", b)
HexEntry(b) == <<"0", "x", HexDigits[(b \div 16) + 1], HexDigits[(b % 16) + 1], ",", " ">>

ProgName == <<"g", "o", "p", "h", "e", "r", "b", "a", "d", "g", "e", "i", "m", "g">>

GoHeader(variablename) ==
  <<"/", "/", " ", "C", "o", "d", "e", " ", "g", "e", "n", "e", "r", "a", "t", "e",
    "d", " ", "b", "y", " ">> \o ProgName \o
  <<" ", "D", "O", " ", "N", "O", "T", " ", "E", "D", "I", "T", ".", "\n", "\n",
    "p", "a", "c", "k", "a", "g", "e", " ", "m", "a", "i", "n", "\n", "\n",
    "v", "a", "r", " ", "r">> \o variablename \o
  <<" ", "=", " ", "[", "]", "b", "y", "t", "e", "{">>

EntriesPerLine == 32

LineStart == <<"\n", "\t">>

GoFooter == <<"\n", "}", "\n">>

\* the line break after every 32nd entry instead of before it
GoEntryBreakAfter(f, imageBits, i, io) ==
  LET g == FWrite(f, HexEntry(imageBits[i]), io)
  IN  IF i % EntriesPerLine = EntriesPerLine - 1 THEN FWrite(g, LineStart, io) ELSE g

\* the body of the range loop for entry i
GoEntry(f, imageBits, i, io) ==
  LET g == IF i % EntriesPerLine = 0 THEN FWrite(f, LineStart, io) ELSE f
  IN  FWrite(g, HexEntry(imageBits[i]), io)

\* for i, b := range imageBits, entries lo..hi-1
RECURSIVE GoEntries(_, _, _, _, _)
GoEntries(f, imageBits, lo, hi, io) ==
  IF hi <= lo \/ f.err THEN f
  ELSE IF hi = lo + 1 THEN GoEntry(f, imageBits, lo, io)
  ELSE LET mid == (lo + hi) \div 2
           fst == GoEntries(f, imageBits, lo, mid, io)
       IN  IF fst.err THEN fst ELSE GoEntries(fst, imageBits, mid, hi, io)

WriteToGoFile(variablename, imageBits, io) ==
  IF io = IOCreateFails THEN NoFile
  ELSE LET h == FWrite(FCreate, GoHeader(variablename), io)
           b == GoEntries(h, imageBits, 0, LenB(imageBits), io)
           f == FWrite(b, GoFooter, io)
       IN  [created |-> TRUE, content |-> f.content, err |-> f.err]

(***************************************************************************)
(* Resampling and dithering (library code): the source image is one of a   *)
(* few uniform pictures; scaling a uniform picture gives a uniform         *)
(* picture, and Floyd-Steinberg leaves pure black and pure white alone     *)
(* and turns mid-gray into a checkerboard of the two palette colours.      *)
(***************************************************************************)
BlackSum == 0
WhiteSum == 196605
GraySum == 98304

Images == {"white", "black", "gray"}

ImageSum(img) ==
  CASE img = "white" -> WhiteSum
    [] img = "black" -> BlackSum
    [] img = "gray"  -> GraySum

\* dst := image.NewRGBA(image.Rect(0, 0, x, y)); NearestNeighbor.Scale(...)
Scale(img, w, h) == [i \in 0..(w - 1) |-> [j \in 0..(h - 1) |-> ImageSum(img)]]

\* d.Dither(dst) with the {black, white} palette
Dither(dst) ==
  [i \in DOMAIN dst |-> [j \in DOMAIN dst[i] |->
     IF dst[i][j] \in {BlackSum, WhiteSum} THEN dst[i][j]
     ELSE IF (i + j) % 2 = 0 THEN BlackSum ELSE WhiteSum]]

ImgToBytes(w, h, img, noDither) ==
  PackLoop(w, h, IF noDither THEN Scale(img, w, h) ELSE Dither(Scale(img, w, h)))

\* the presets of main's ratio switch
ProfileX == 120
ProfileY == 128
SplashX == 246
SplashY == 128

Presets == {<<ProfileX, ProfileY>>, <<SplashX, SplashY>>}

\* ImgToBytes is a function of its arguments: its results for the presets,
\* tabulated once
PresetBits ==
  {<<k, ImgToBytes(k[1], k[2], k[3], k[4])>> :
     k \in {<<t[1], t[2], img, nd>> : t \in Presets, img \in Images, nd \in BOOLEAN}}

\* ImgToBytes(w, h, sourceImage) under the flag disableDithering
Converted(w, h, img, noDither) ==
  IF <<w, h>> \in Presets
  THEN (CHOOSE c \in PresetBits : c[1] = <<w, h, img, noDither>>)[2]
  ELSE ImgToBytes(w, h, img, noDither)

(***************************************************************************)
(* State                                                                   *)
(***************************************************************************)
VARIABLES
  \* the command line and the input file
  nargs, source, ratio, outMode, show, disableDithering,
  \* main
  pc, calls, x, y, imgBits, stdout, stderr, files, exitCode, crashed,
  \* SpecFn: inputs, the functions applied so far, and their results
  fnKind, tok, grid, bm, fnDone, parsed, packed, shown, goFile

cmdVars == <<nargs, source, ratio, outMode, show, disableDithering>>
mainVars == <<pc, calls, x, y, imgBits, stdout, stderr, files, exitCode, crashed>>
fnVars == <<fnKind, tok, grid, bm, fnDone, parsed, packed, shown, goFile>>
vars == <<cmdVars, mainVars, fnVars>>

Profile == <<"p", "r", "o", "f", "i", "l", "e">>
Splash == <<"s", "p", "l", "a", "s", "h">>
GoSuffix == <<"-", "g", "e", "n", "e", "r", "a", "t", "e", "d", ".", "g", "o">>
BinSuffix == <<".", "b", "i", "n">>

ValidModes == {"rice", "bin", "base64", "none"}
OutModes == ValidModes \cup {"", "png"}

\* "<w>x<h>"
RatioTok(w, sep, h) == Itoa(w) \o <<sep>> \o Itoa(h)

Dims == (0 - MaxDim)..MaxDim

RatioTokens ==
  {Profile, Splash, <<>>, <<"a", "b", "c">>, <<"8">>, <<"8", "x", "a">>,
   <<"a", "x", "8">>, <<"8", "x", "8", "x", "8">>, <<"8", "X", "7">>}
  \cup {RatioTok(w, "x", h) : w \in Dims, h \in Dims}

EmptyBits == [k \in {} |-> 0]

NoGrid == [w |-> 0, h |-> 0, dst |-> [i \in {} |-> 0]]
NoParsed == [x |-> 0, y |-> 0, err |-> ErrNone]
NoPacked == [bits |-> EmptyBits, panic |-> FALSE]
NoShown == [lines |-> <<>>, panic |-> FALSE]

FnIdle ==
  /\ fnKind = "none"
  /\ tok = <<>> /\ grid = NoGrid /\ bm = EmptyBits /\ fnDone = {}
  /\ parsed = NoParsed /\ packed = NoPacked /\ shown = NoShown /\ goFile = NoFile

MainStart ==
  /\ calls = <<>> /\ x = 0 /\ y = 0 /\ imgBits = EmptyBits
  /\ stdout = <<>> /\ stderr = <<>> /\ files = {}
  /\ exitCode = 0 - 1 /\ crashed = FALSE

\* flag.Parse has set the flags; nothing else has happened
Init ==
  /\ nargs \in 0..2
  /\ source \in {"missing", "undecodable"} \cup Images
  /\ ratio \in RatioTokens
  /\ outMode \in OutModes
  /\ show \in BOOLEAN
  /\ disableDithering \in BOOLEAN
  /\ pc = "start"
  /\ MainStart
  /\ FnIdle

(***************************************************************************)
(* main                                                                    *)
(***************************************************************************)
\* the log package and the panic trace write to the diagnostic stream
LogStream == "stderr"
\* flag.CommandLine.Output()
UsageStream == "stderr"
\* the preview on the stream the base64 text uses
PreviewToStdout == "stdout"

\* fmt.Fprint(os.Stderr, ...) in PrintImg
PreviewStream == "stderr"
\* fmt.Println
PrintlnStream == "stdout"

\* what a call writes: the stream it writes to, what it is, and its text
Log(text) == [fd |-> LogStream, kind |-> "log", text |-> text]
UsageText == [fd |-> UsageStream, kind |-> "usage", text |-> "Usage of"]
Preview(lines) == [fd |-> PreviewStream, kind |-> "preview", text |-> lines]
Printed(str) == [fd |-> PrintlnStream, kind |-> "base64", text |-> str]

\* the streams after the entries es were written, in order
Out(es) ==
  LET toStdout(e) == e.fd = "stdout"
      toStderr(e) == e.fd = "stderr"
  IN  /\ stdout' = stdout \o SelectSeq(es, toStdout)
      /\ stderr' = stderr \o SelectSeq(es, toStderr)

\* os.Exit(code), also through log.Fatalf and Usage
Exit(code) == pc' = "exit" /\ exitCode' = code

\* Usage() ends in os.Exit(1)
UsageExitCode == 1

\* log.Fatalf(msg), and os.Exit(1) after log.Println(msg)
Fatal(msg) == Out(<<Log(msg)>>) /\ Exit(1)

\* a Usage that returns instead of exiting
FailUsageReturns(msg) ==
  Out(<<Log(msg), UsageText>>) /\ pc' = "show" /\ exitCode' = exitCode

\* log.Println(msg); Usage()
FailUsage(msg) == Out(<<Log(msg), UsageText>>) /\ Exit(UsageExitCode)

\* if flag.NArg() != 1
CheckArgs ==
  /\ pc = "start"
  /\ IF nargs # 1
     THEN /\ Out(<<Log("args"), UsageText>>)
          /\ Exit(1)
          /\ UNCHANGED <<calls, x, y, imgBits, files, crashed>>
     ELSE /\ pc' = "stat"
          /\ UNCHANGED <<calls, x, y, imgBits, stdout, stderr, files, exitCode, crashed>>
  /\ UNCHANGED <<cmdVars, fnVars>>

\* os.Stat(infile)
StatFile ==
  /\ pc = "stat"
  /\ IF source = "missing"
     THEN /\ Fatal("could not stat")
          /\ UNCHANGED <<calls, x, y, imgBits, files, crashed>>
     ELSE /\ pc' = "load"
          /\ UNCHANGED <<calls, x, y, imgBits, stdout, stderr, files, exitCode, crashed>>
  /\ UNCHANGED <<cmdVars, fnVars>>

\* sourceImage, err := LoadImg(infile)
LoadImage ==
  /\ pc = "load"
  /\ calls' = Append(calls, "LoadImg")
  /\ IF source = "undecodable"
     THEN /\ Fatal("error loading source image")
          /\ UNCHANGED <<x, y, imgBits, files, crashed>>
     ELSE /\ pc' = "ratio"
          /\ UNCHANGED <<x, y, imgBits, stdout, stderr, files, exitCode, crashed>>
  /\ UNCHANGED <<cmdVars, fnVars>>

\* switch ratio
ResolveRatio ==
  /\ pc = "ratio"
  /\ CASE ratio = Profile ->
            /\ x' = ProfileX /\ y' = ProfileY /\ pc' = "convert"
            /\ UNCHANGED <<calls, stdout, stderr, exitCode>>
       [] ratio = Splash ->
            /\ x' = SplashX /\ y' = SplashY /\ pc' = "convert"
            /\ UNCHANGED <<calls, stdout, stderr, exitCode>>
       [] ratio = <<>> ->
            /\ FailUsage("error: a ratio must be provided.")
            /\ calls' = Append(calls, "Usage")
            /\ UNCHANGED <<x, y>>
       [] OTHER ->
            LET r == ParseRatio(ratio)
            IN  /\ x' = r.x /\ y' = r.y
                /\ IF r.err # ErrNone
                   THEN /\ FailUsage(r.err)
                        /\ calls' = calls \o <<"ParseRatio", "Usage">>
                   ELSE IF GoMod(r.y, 8) # 0
                   THEN /\ Fatal("error: height/y value must be divisible by 8")
                        /\ calls' = Append(calls, "ParseRatio")
                   ELSE /\ pc' = "convert"
                        /\ calls' = Append(calls, "ParseRatio")
                        /\ UNCHANGED <<stdout, stderr, exitCode>>
  /\ UNCHANGED <<imgBits, files, crashed>>
  /\ UNCHANGED <<cmdVars, fnVars>>

\* a run-time panic: the trace goes to the diagnostic stream, exit status 2
Panic ==
  /\ Out(<<Log("panic")>>)
  /\ Exit(2)
  /\ crashed' = TRUE

\* imgBits = ImgToBytes(x, y, sourceImage)
Convert ==
  /\ pc = "convert"
  /\ calls' = Append(calls, "ImgToBytes")
  /\ LET r == Converted(x, y, source, disableDithering)
     IN  IF r.panic
         THEN /\ Panic
              /\ UNCHANGED imgBits
         ELSE /\ imgBits' = r.bits
              /\ pc' = "output"
              /\ UNCHANGED <<stdout, stderr, exitCode, crashed>>
  /\ UNCHANGED <<x, y, files>>
  /\ UNCHANGED <<cmdVars, fnVars>>

IOOutcomes == {IONoFail, IOCreateFails, 0, 1, 2}

\* what the run has left in the file system after a Write* call
Stored(name, f) == IF f.created THEN {[name |-> name, content |-> f.content]} ELSE {}

\* switch outMode
Output ==
  /\ pc = "output"
  /\ CASE outMode = "rice" ->
            \E io \in IOOutcomes :
              LET f == WriteToGoFile(ratio, imgBits, io)
              IN  /\ calls' = Append(calls, "WriteToGoFile")
                  /\ files' = files \cup Stored(ratio \o GoSuffix, f)
                  /\ IF f.err
                     THEN Fatal("error writing image to file")
                     ELSE /\ pc' = "show"
                          /\ UNCHANGED <<stdout, stderr, exitCode>>
       [] outMode = "bin" ->
            \E io \in IOOutcomes :
              LET f == WriteToBinFile(imgBits, io)
              IN  /\ calls' = Append(calls, "WriteToBinFile")
                  /\ files' = files \cup Stored(ratio \o BinSuffix, f)
                  /\ IF f.err
                     THEN Fatal("error writing image to file")
                     ELSE /\ pc' = "show"
                          /\ UNCHANGED <<stdout, stderr, exitCode>>
       [] outMode = "base64" ->
            /\ calls' = Append(calls, "EncodeToString")
            /\ Out(<<Printed(EncodeToString(imgBits))>>)
            /\ pc' = "show"
            /\ UNCHANGED <<files, exitCode>>
       [] outMode = "none" ->
            /\ pc' = "show"
            /\ UNCHANGED <<calls, stdout, stderr, files, exitCode>>
       [] OTHER ->
            /\ calls' = Append(calls, "Usage")
            /\ FailUsage("error: invalid outmode")
            /\ UNCHANGED files
  /\ UNCHANGED <<x, y, imgBits, crashed>>
  /\ UNCHANGED <<cmdVars, fnVars>>

\* if show { PrintImg(x, y, imgBits) }, then main returns
Show ==
  /\ pc = "show"
  /\ IF show
     THEN LET p == PrintImg(x, y, imgBits)
          IN  /\ calls' = Append(calls, "PrintImg")
              /\ IF p.panic
                 THEN /\ Out(<<Preview(p.lines), Log("panic")>>)
                      /\ Exit(2)
                      /\ crashed' = TRUE
                 ELSE /\ Out(<<Preview(p.lines)>>)
                      /\ Exit(0)
                      /\ UNCHANGED crashed
     ELSE /\ Exit(0)
          /\ UNCHANGED <<calls, stdout, stderr, crashed>>
  /\ UNCHANGED <<x, y, imgBits, files>>
  /\ UNCHANGED <<cmdVars, fnVars>>

Next == CheckArgs \/ StatFile \/ LoadImage \/ ResolveRatio \/ Convert \/ Output \/ Show

Spec == Init /\ [][Next]_vars

(***************************************************************************)
(* SpecFn: the functions applied to inputs drawn from bounded sets         *)
(***************************************************************************)
TokAlphabet == {"8", "1", "x", "X", "-", "+", "a"}

RECURSIVE SeqsUpTo(_)
SeqsUpTo(n) ==
  IF n = 0 THEN {<<>>}
  ELSE LET shorter == SeqsUpTo(n - 1)
       IN  shorter \cup {Append(t, c) : t \in shorter, c \in TokAlphabet}

Tokens ==
  SeqsUpTo(MaxTokLen)
  \cup {RatioTok(w, sep, h) : w \in Dims, sep \in {"x", "X"}, h \in Dims}
  \cup {RatioTok(64, "x", 32), RatioTok(64, "x", 127)}

\* the subsets of S with at most n elements
RECURSIVE UpTo(_, _)
UpTo(S, n) ==
  IF n = 0 THEN {{}}
  ELSE LET smaller == UpTo(S, n - 1)
       IN  smaller \cup {m \cup {e} : m \in smaller, e \in S}

\* channel sums that are not black: the least one and pure white
NonBlackSums == {1, WhiteSum}

\* the w x h pictures that are one colour except for the marked pixels
Grids(w, h) ==
  {[w |-> w, h |-> h,
    dst |-> [i \in 0..(w - 1) |-> [j \in 0..(h - 1) |->
               IF (<<i, j>> \in marks) # onBlack THEN BlackSum ELSE ground]]] :
     marks \in UpTo((0..(w - 1)) \X (0..(h - 1)), MaxMarks),
     ground \in NonBlackSums, onBlack \in BOOLEAN}

ByteStarts == {0, 9, 160, 255}
ByteSteps == {0, 1, 17, 255}

Bitmaps ==
  {[k \in 0..(n - 1) |-> (start + (k * step)) % 256] :
     n \in 0..MaxBytes, start \in ByteStarts, step \in ByteSteps}

InitFn ==
  /\ nargs = 1 /\ source = "white" /\ ratio = <<>> /\ outMode = "none"
  /\ show = FALSE /\ disableDithering = FALSE
  /\ pc = "fn"
  /\ MainStart
  /\ fnDone = {}
  /\ parsed = NoParsed /\ packed = NoPacked /\ shown = NoShown /\ goFile = NoFile
  /\ \/ /\ fnKind = "ratio"
        /\ tok \in Tokens
        /\ grid = NoGrid /\ bm = EmptyBits
     \/ /\ fnKind = "grid"
        /\ \E w \in 0..MaxW, k \in 1..MaxHBytes : grid \in Grids(w, 8 * k)
        /\ tok = <<>> /\ bm = EmptyBits
     \/ /\ fnKind = "bytes"
        /\ bm \in Bitmaps
        /\ tok = <<>> /\ grid = NoGrid

ApplyParseRatio ==
  /\ fnKind = "ratio" /\ fnDone = {}
  /\ parsed' = ParseRatio(tok)
  /\ fnDone' = {"ParseRatio"}
  /\ UNCHANGED <<fnKind, tok, grid, bm, packed, shown, goFile>>
  /\ UNCHANGED <<cmdVars, mainVars>>

ApplyPackLoop ==
  /\ fnKind = "grid" /\ fnDone = {}
  /\ packed' = PackLoop(grid.w, grid.h, grid.dst)
  /\ fnDone' = {"PackLoop"}
  /\ UNCHANGED <<fnKind, tok, grid, bm, parsed, shown, goFile>>
  /\ UNCHANGED <<cmdVars, mainVars>>

ApplyPrintImg ==
  /\ fnKind = "grid" /\ fnDone = {"PackLoop"} /\ ~packed.panic
  /\ shown' = PrintImg(grid.w, grid.h, packed.bits)
  /\ fnDone' = {"PackLoop", "PrintImg"}
  /\ UNCHANGED <<fnKind, tok, grid, bm, parsed, packed, goFile>>
  /\ UNCHANGED <<cmdVars, mainVars>>

ApplyWriteToGoFile ==
  /\ fnKind = "bytes" /\ fnDone = {}
  /\ goFile' = WriteToGoFile(Profile, bm, IONoFail)
  /\ fnDone' = {"WriteToGoFile"}
  /\ UNCHANGED <<fnKind, tok, grid, bm, parsed, packed, shown>>
  /\ UNCHANGED <<cmdVars, mainVars>>

NextFn == ApplyParseRatio \/ ApplyPackLoop \/ ApplyPrintImg \/ ApplyWriteToGoFile

SpecFn == InitFn /\ [][NextFn]_vars

(***************************************************************************)
(* Properties                                                              *)
(***************************************************************************)
InCalls(f) == \E k \in 1..Len(calls) : calls[k] = f

NoPreview ==
  /\ \A k \in 1..Len(stdout) : stdout[k].kind # "preview"
  /\ \A k \in 1..Len(stderr) : stderr[k].kind # "preview"

\* C1: after the packing loop, bit (7 - idx % 8) of byte idx / 8, with
\* idx = col*H + row, is 1 exactly when pixel (col, row) is black (channel
\* sum zero); no bit is set for a pixel that is not black.
C1_PackedBitIffBlack ==
  "PackLoop" \in fnDone =>
    /\ ~packed.panic
    /\ \A col \in 0..(grid.w - 1), row \in 0..(grid.h - 1) :
         LET idx == (col * grid.h) + row
         IN  (idx \div 8) \in DOMAIN packed.bits
             /\ ((Bit(packed.bits[idx \div 8], 7 - (idx % 8)) = 1)
                   <=> (grid.dst[col][row] = 0))

C1_Witness ==
  /\ "PackLoop" \in fnDone
  /\ grid.w = 2
  /\ \E col \in 0..1, row \in 0..(grid.h - 1) : grid.dst[col][row] = 0
  /\ \E col \in 0..1, row \in 0..(grid.h - 1) : grid.dst[col][row] # 0

\* C2: for every token "<W>x<H>" (separator x or X) of two decimal integers,
\* ParseRatio returns (W, H) and no error: the width from the first field,
\* the height from the second.
C2_ParsesBothFields ==
  "ParseRatio" \in fnDone =>
    \A w \in Dims \cup {64}, h \in Dims \cup {32, 127}, sep \in {"x", "X"} :
      tok = RatioTok(w, sep, h) => parsed = [x |-> w, y |-> h, err |-> ErrNone]

\* C3: ParseRatio returns an error and the dimensions (0, 0) whenever the
\* token does not split on x into exactly two fields, or the first or the
\* second field is not a valid integer.
C3_RejectsBadFields ==
  "ParseRatio" \in fnDone =>
    LET fields == Split(ToLower(tok), "x")
    IN  (Len(fields) # 2 \/ Atoi(fields[1]).err \/ Atoi(fields[2]).err)
          => (parsed.err # ErrNone /\ parsed.x = 0 /\ parsed.y = 0)

\* C4: a run whose ratio is "<W>x<H>" with H not divisible by 8 ends with a
\* non-zero exit status, before ImgToBytes runs and before any file, stdout
\* or preview output.
C4_OddHeightRejected ==
  \A w \in Dims, h \in Dims :
    (ratio = RatioTok(w, "x", h) /\ GoMod(h, 8) # 0) =>
      /\ ~InCalls("ImgToBytes")
      /\ files = {} /\ stdout = <<>> /\ NoPreview
      /\ pc = "exit" => exitCode # 0

\* C5: the glyph PrintImg prints at display position (row, col) of the
\* packed buffer is the set-bit glyph exactly when pixel (col, row) was
\* black when it was packed.
C5_PreviewRoundTrip ==
  "PrintImg" \in fnDone =>
    /\ ~shown.panic
    /\ Len(shown.lines) = grid.h
    /\ \A row \in 0..(grid.h - 1) :
         /\ Len(shown.lines[row + 1]) = grid.w
         /\ \A col \in 0..(grid.w - 1) :
              (shown.lines[row + 1][col + 1] = "*") <=> (grid.dst[col][row] = 0)

C5_Witness ==
  /\ "PrintImg" \in fnDone
  /\ grid.w = 2
  /\ \E col \in 0..1, row \in 0..(grid.h - 1) : grid.dst[col][row] = 0
  /\ \E col \in 0..1, row \in 0..(grid.h - 1) : grid.dst[col][row] # 0

\* C6: in a run whose outmode is none of rice, bin, base64, none, no file
\* is created, nothing is written to standard output and no preview is
\* printed at any point, and the run ends with an error message and a
\* non-zero exit status.
C6_BadModeNoOutput ==
  outMode \notin ValidModes =>
    /\ files = {} /\ stdout = <<>> /\ NoPreview
    /\ pc = "exit" =>
         /\ exitCode # 0
         /\ \E k \in 1..Len(stderr) : stderr[k].kind = "log"

C6_Witness ==
  /\ outMode \notin ValidModes
  /\ show
  /\ pc = "exit"
  /\ InCalls("ImgToBytes")
  /\ calls[Len(calls)] = "Usage"

\* C7: the buffer ImgToBytes returns has exactly width*height/8 bytes, for
\* the presets and every accepted custom ratio, dithering or not.
C7_BitmapLength ==
  (InCalls("ImgToBytes") /\ ~crashed) =>
    /\ GoMod(y, 8) = 0
    /\ 8 * LenB(imgBits) = x * y

C7_Witness ==
  /\ pc = "output"
  /\ x = SplashX /\ y = SplashY
  /\ disableDithering
  /\ source = "black"

\* the text is the padded standard base64 encoding of the byte slice b
IsBase64Of(text, b) ==
  LET n == LenB(b)
      val(k) == IF text[k] = "=" THEN 0 ELSE (CHOOSE v \in 1..64 : B64[v] = text[k]) - 1
      pad(k) == text[k] = "="
      byte(k) ==
        LET g == 4 * (k \div 3)
        IN  CASE k % 3 = 0 -> (val(g + 1) * 4) + (val(g + 2) \div 16)
              [] k % 3 = 1 -> ((val(g + 2) % 16) * 16) + (val(g + 3) \div 4)
              [] k % 3 = 2 -> ((val(g + 3) % 4) * 64) + val(g + 4)
  IN  /\ Len(text) = 4 * ((n + 2) \div 3)
      /\ \A k \in 1..Len(text) : pad(k) \/ \E v \in 1..64 : B64[v] = text[k]
      /\ \A k \in 1..Len(text) : pad(k) <=> (k > Len(text) - ((3 - (n % 3)) % 3))
      /\ \A k \in 0..(n - 1) : byte(k) = b[k]

\* C8: something is written to standard output only in mode base64, and it
\* is then exactly the base64 encoding of the bitmap; usage text, error
\* text and the preview go to the diagnostic stream only.
C8_StdoutDiscipline ==
  /\ \A k \in 1..Len(stdout) : stdout[k].kind = "base64"
  /\ \A k \in 1..Len(stderr) : stderr[k].kind \in {"log", "usage", "preview"}
  /\ stdout # <<>> =>
       /\ outMode = "base64"
       /\ Len(stdout) = 1
       /\ IsBase64Of(stdout[1].text, imgBits)

C8_Witness ==
  /\ outMode = "base64"
  /\ show
  /\ pc = "exit" /\ exitCode = 0
  /\ stdout # <<>>
  /\ \E k \in 1..Len(stderr) : stderr[k].kind = "preview"
  /\ \E k \in DOMAIN imgBits : imgBits[k] # 0

UpperHex == {"0", "1", "2", "3", "4", "5", "6", "7", "8", "9", "A", "B", "C", "D", "E", "F"}

HexValue(c) == (CHOOSE v \in 1..16 : HexDigits[v] = c) - 1

\* where entry i starts in the text after the header: six characters per
\* entry, two more for every line started at or before it
EntryStart(i) == (6 * i) + (2 * ((i \div 32) + 1)) + 1

\* C9: the generated literal holds the n entries in bitmap order, each as
\* 0x, two uppercase hex digits, a comma; a tab-indented line starts
\* exactly before the entries 0, 32, 64, ...; [0x00, 0xFF] gives the single
\* indented line `0x00, 0xFF, `.
C9_GoFileLayout ==
  "WriteToGoFile" \in fnDone =>
    LET n == LenB(bm)
        hdr == Len(GoHeader(Profile))
        len == Len(goFile.content)
        body == SubSeq(goFile.content, hdr + 1, len - 3)
    IN  /\ goFile.created /\ ~goFile.err
        /\ len >= hdr + 3
        /\ SubSeq(goFile.content, 1, hdr) = GoHeader(Profile)
        /\ SubSeq(goFile.content, len - 2, len) = <<"\n", "}", "\n">>
        /\ Len(body) = (6 * n) + (2 * ((n + 31) \div 32))
        /\ \A i \in 0..(n - 1) :
             LET at == EntryStart(i)
             IN  /\ body[at] = "0" /\ body[at + 1] = "x"
                 /\ body[at + 2] \in UpperHex /\ body[at + 3] \in UpperHex
                 /\ (16 * HexValue(body[at + 2])) + HexValue(body[at + 3]) = bm[i]
                 /\ body[at + 4] = "," /\ body[at + 5] = " "
                 /\ (i % 32 = 0) => (body[at - 2] = "\n" /\ body[at - 1] = "\t")
        /\ (n = 2 /\ bm[0] = 0 /\ bm[1] = 255) =>
             body = <<"\n", "\t", "0", "x", "0", "0", ",", " ",
                      "0", "x", "F", "F", ",", " ">>

C9_Witness ==
  /\ "WriteToGoFile" \in fnDone
  /\ LenB(bm) > 64
  /\ bm[0] = 160
  /\ bm[1] = 177

\* C10: for every (x, y) main passes on, the allocation size x*y/8 is not
\* negative and every byte index (i*y + j)/8 of the packing loop and of the
\* preview loop lies in [0, x*y/8): no run reaches an out-of-range access
\* or a negative-length allocation.
C10_IndexSafety ==
  /\ ~crashed
  /\ pc = "convert" =>
       /\ GoDiv(x * y, 8) >= 0
       /\ \A i \in 0..(x - 1), j \in 0..(y - 1) :
            /\ GoDiv((i * y) + j, 8) >= 0
            /\ GoDiv((i * y) + j, 8) < GoDiv(x * y, 8)

C10_Witness ==
  /\ x < 0 /\ y < 0
  /\ InCalls("ImgToBytes")
  /\ InCalls("PrintImg")
  /\ pc = "exit" /\ exitCode = 0

====
